---- MODULE Spec2Model ----
(***************************************************************************)
(* Model of books_crud.py: a command-line CRUD tool over a catalog of book *)
(* records persisted as one JSON array in the file BOOKS_FILE.             *)
(*                                                                         *)
(* The file is modelled as a sequence of JSON tokens ("[", one token per   *)
(* object, "]", newline, or junk text), so that json.dump / json.load are  *)
(* real conversions and a truncated or half-written file is a value the    *)
(* model can hold.  A book is a function from the keys it has to their     *)
(* values, so that a missing key is different from a key with a default.   *)
(*                                                                         *)
(* Spec     : invocations run one after the other, starting from an absent *)
(*            store, a malformed one, or a store written by the tool.      *)
(* SpecAny  : sequential invocations starting from a tool-written store or *)
(*            a hand-written document (no trailing newline, repeated ids,  *)
(*            records with missing keys).                                  *)
(* SpecConc : two invocations interleaved at the granularity of load,      *)
(*            open-for-write, flush and close.                             *)
(***************************************************************************)
EXTENDS Integers, Sequences, FiniteSets, TLC

VARIABLES store, pre, last, undo, pc, cmd, seen, pending, offset, res

vars == <<store, pre, last, undo, pc, cmd, seen, pending, offset, res>>
seqVars == <<store, pre, last, undo>>
concVars == <<pc, cmd, seen, pending, offset, res>>

(* ---------------------------- bounds ----------------------------------- *)
MaxId == 1
MaxBooks == 2

Ids == 1..MaxId
Titles == {"Dune", "New"}
Authors == {"Herbert"}
Years == {1965}
GenreLists == {<<>>, <<"scifi">>}

(* ------------------------- optional values ----------------------------- *)
(* Python's None / a present value, for arguments that may be omitted. *)
None == <<>>
Some(v) == <<v>>
Opt(S) == {None} \cup {Some(v) : v \in S}

(* ------------------------------ books ---------------------------------- *)
Fields == {"id", "title", "author", "year", "genres", "in_stock"}

NoBook == [k \in {} |-> 0]

(* book[k] = v on a Python dict: adds the key when it is missing. *)
SetField(b, k, v) == [f \in (DOMAIN b) \cup {k} |-> IF f = k THEN v ELSE b[f]]

(* ------------------------- the file's content -------------------------- *)
OpenTok == [t |-> "[", b |-> NoBook]
CloseTok == [t |-> "]", b |-> NoBook]
NlTok == [t |-> "nl", b |-> NoBook]
JunkTok == [t |-> "not json", b |-> NoBook]
NulTok == [t |-> "nul", b |-> NoBook]
ObjTok(b) == [t |-> "obj", b |-> b]

Absent == [exists |-> FALSE, data |-> <<>>]
FileOf(data) == [exists |-> TRUE, data |-> data]

(* json.dump(books, f, indent=2): "[", the objects in order, "]". *)
json_dump(bs) == <<OpenTok>> \o [i \in 1..Len(bs) |-> ObjTok(bs[i])] \o <<CloseTok>>

(* The position of the first "]" token, 0 when there is none. *)
FirstClose(data) ==
    IF \E i \in 1..Len(data) : data[i].t = "]"
    THEN CHOOSE i \in 1..Len(data) : data[i].t = "]" /\ \A j \in 1..(i - 1) : data[j].t # "]"
    ELSE 0

(* json.load accepts the text: an array of objects, then only whitespace. *)
json_valid(data) ==
    LET c == FirstClose(data) IN
    /\ c >= 2
    /\ data[1].t = "["
    /\ \A i \in 2..(c - 1) : data[i].t = "obj"
    /\ \A i \in (c + 1)..Len(data) : data[i].t = "nl"

(* json.load's value for a text it accepts. *)
json_load(data) == [i \in 1..(FirstClose(data) - 2) |-> data[i + 1].b]

(* Variant: a file that does not parse is treated as an empty catalog. *)
load_books_default(f) ==
    IF ~f.exists THEN [ok |-> TRUE, books |-> <<>>]
    ELSE IF json_valid(f.data) THEN [ok |-> TRUE, books |-> json_load(f.data)]
    ELSE [ok |-> TRUE, books |-> <<>>]

(* load_books: [] for an absent file, the parsed list, or the fatal error. *)
load_books(f) ==
    IF ~f.exists THEN [ok |-> TRUE, books |-> <<>>]
    ELSE IF json_valid(f.data) THEN [ok |-> TRUE, books |-> json_load(f.data)]
    ELSE [ok |-> FALSE, books |-> <<>>]

(* The text save_books writes: the document and a trailing newline. *)
save_text(bs) == json_dump(bs) \o <<NlTok>>

(* save_books run to completion: the file holds exactly the new text. *)
save_books(bs) == FileOf(save_text(bs))

(* ------------------------------ lookup --------------------------------- *)
HasId(bs, k) == \E i \in 1..Len(bs) : bs[i]["id"] = k

(* Variant: the scan starts at the second record. *)
ensure_unique_id_skip_first(bs, k) == ~(\E i \in 2..Len(bs) : bs[i]["id"] = k)

(* ensure_unique_id: TRUE when the call returns, FALSE when it exits. *)
ensure_unique_id(bs, k) == ~HasId(bs, k)

(* Variant: the last match wins. *)
get_book_index_last(bs, k) ==
    IF HasId(bs, k)
    THEN CHOOSE i \in 1..Len(bs) : bs[i]["id"] = k /\ \A j \in (i + 1)..Len(bs) : bs[j]["id"] # k
    ELSE 0

(* Variant: a missing id yields the last position instead of exiting. *)
get_book_index_fallback(bs, k) ==
    IF HasId(bs, k)
    THEN CHOOSE i \in 1..Len(bs) : bs[i]["id"] = k /\ \A j \in 1..(i - 1) : bs[j]["id"] # k
    ELSE Len(bs)

(* get_book_index: the first index whose id matches (1-based), 0 for exit. *)
get_book_index(bs, k) ==
    IF HasId(bs, k)
    THEN CHOOSE i \in 1..Len(bs) : bs[i]["id"] = k /\ \A j \in 1..(i - 1) : bs[j]["id"] # k
    ELSE 0

(* books.pop(idx) leaves this list. *)
Pop(bs, idx) == [i \in 1..(Len(bs) - 1) |-> IF i < idx THEN bs[i] ELSE bs[i + 1]]

(* -------------------------- command lines ------------------------------ *)
(* What the user typed: the subcommand and the options given.  stock is    *)
(* "none", "in" (--in-stock) or "out" (--out-of-stock).                    *)
CmdLine(c, id, title, author, year, genres, stock, pretty) ==
    [command |-> c, id |-> id, title |-> title, author |-> author, year |-> year,
     genres |-> genres, stock |-> stock, pretty |-> pretty]

NoCmd == CmdLine("none", 0, None, None, None, None, "none", FALSE)
InitCmdLines == {CmdLine("init", 0, None, None, None, None, "none", FALSE)}
ListCmdLines == {CmdLine("list", 0, None, None, None, None, "none", p) : p \in BOOLEAN}
GetCmdLines == {CmdLine("get", k, None, None, None, None, "none", FALSE) : k \in Ids}
DeleteCmdLines == {CmdLine("delete", k, None, None, None, None, "none", FALSE) : k \in Ids}
StockFlags == {"none", "in", "out"}
AddCmdLines ==
    {CmdLine("add", k, Some(t), Some(a), Some(y), g, s, FALSE) :
        k \in Ids, t \in Titles, a \in Authors, y \in Years,
        g \in Opt(GenreLists), s \in StockFlags}
UpdateCmdLines ==
    {CmdLine("update", k, t, a, y, g, s, FALSE) :
        k \in Ids, t \in Opt(Titles), a \in Opt(Authors), y \in Opt(Years),
        g \in Opt(GenreLists), s \in StockFlags}

(* Variant: add's in_stock defaults to False. *)
build_parser_stock_false(cl) ==
    IF cl.command = "add"
    THEN [id |-> cl.id, title |-> cl.title[1], author |-> cl.author[1], year |-> cl.year[1],
          genres |-> IF cl.genres = None THEN <<>> ELSE cl.genres[1],
          in_stock |-> (cl.stock = "in")]
    ELSE [id |-> cl.id, title |-> cl.title, author |-> cl.author, year |-> cl.year,
          genres |-> cl.genres,
          in_stock |-> IF cl.stock = "none" THEN None ELSE Some(cl.stock = "in")]

(* build_parser + parse_args: the Namespace the handler receives.  add     *)
(* defaults genres to [] and in_stock to True; update leaves both None.    *)
build_parser(cl) ==
    IF cl.command = "add"
    THEN [id |-> cl.id, title |-> cl.title[1], author |-> cl.author[1], year |-> cl.year[1],
          genres |-> IF cl.genres = None THEN <<>> ELSE cl.genres[1],
          in_stock |-> (cl.stock # "out")]
    ELSE [id |-> cl.id, title |-> cl.title, author |-> cl.author, year |-> cl.year,
          genres |-> cl.genres,
          in_stock |-> IF cl.stock = "none" THEN None ELSE Some(cl.stock = "in")]

(* --------------------- the handlers' list transforms ------------------- *)
(* Variant: the genres key is written only when genres were given. *)
NewBook_sparse(args) ==
    IF args.genres = None \/ args.genres = <<>>
    THEN [id |-> args.id, title |-> args.title, author |-> args.author, year |-> args.year,
          in_stock |-> args.in_stock]
    ELSE [id |-> args.id, title |-> args.title, author |-> args.author, year |-> args.year,
          genres |-> args.genres, in_stock |-> args.in_stock]

(* cmd_add lines 59-67: the new record ("args.genres or []"), appended. *)
NewBook(args) ==
    [id |-> args.id, title |-> args.title, author |-> args.author, year |-> args.year,
     genres |-> IF args.genres = None \/ args.genres = <<>> THEN <<>> ELSE args.genres,
     in_stock |-> args.in_stock]

AddBook(bs, args) == Append(bs, NewBook(args))

(* Variant: "if value:" in place of "if value is not None". *)
ApplyField_truthy(b, k, o) ==
    IF o = None THEN b
    ELSE IF k = "genres" /\ o[1] = <<>> THEN b
    ELSE IF k = "in_stock" /\ ~o[1] THEN b
    ELSE SetField(b, k, o[1])

(* cmd_update lines 76-85: each supplied field overwrites, in order. *)
ApplyField(b, k, o) == IF o = None THEN b ELSE SetField(b, k, o[1])

UpdatedBook(b, args) ==
    ApplyField(ApplyField(ApplyField(ApplyField(ApplyField(b,
        "title", args.title), "author", args.author), "year", args.year),
        "genres", args.genres), "in_stock", args.in_stock)

UpdateBook(bs, idx, args) == [bs EXCEPT ![idx] = UpdatedBook(bs[idx], args)]

(* ------------------------ outcomes of a handler ------------------------ *)
(* file: the store when the process has exited; exit: the exit status;     *)
(* err: what went to the error stream; out: the records printed as JSON.   *)
Outcome(f, exit, err, out) == [file |-> f, exit |-> exit, err |-> err, out |-> out]
Fail(f, err) == Outcome(f, 1, err, <<>>)

(* Variant: init writes the empty catalog whether or not the file exists. *)
cmd_init_overwrite(f, args) == Outcome(save_books(<<>>), 0, "", <<>>)

cmd_init(f, args) ==
    IF f.exists THEN Outcome(f, 0, "", <<>>)
    ELSE Outcome(save_books(<<>>), 0, "", <<>>)

cmd_list(f, args) ==
    LET ld == load_books(f) IN
    IF ~ld.ok THEN Fail(f, "MalformedStore")
    ELSE Outcome(f, 0, "", ld.books)

cmd_get(f, args) ==
    LET ld == load_books(f)
        idx == get_book_index(ld.books, args.id) IN
    IF ~ld.ok THEN Fail(f, "MalformedStore")
    ELSE IF idx = 0 THEN Fail(f, "NotFound")
    ELSE Outcome(f, 0, "", <<ld.books[idx]>>)

(* Variant: add without the call of ensure_unique_id. *)
cmd_add_unchecked(f, args) ==
    LET ld == load_books(f) IN
    IF ~ld.ok THEN Fail(f, "MalformedStore")
    ELSE Outcome(save_books(AddBook(ld.books, args)), 0, "", <<>>)

cmd_add(f, args) ==
    LET ld == load_books(f) IN
    IF ~ld.ok THEN Fail(f, "MalformedStore")
    ELSE IF ~ensure_unique_id(ld.books, args.id) THEN Fail(f, "DuplicateId")
    ELSE Outcome(save_books(AddBook(ld.books, args)), 0, "", <<>>)

cmd_update(f, args) ==
    LET ld == load_books(f)
        idx == get_book_index(ld.books, args.id) IN
    IF ~ld.ok THEN Fail(f, "MalformedStore")
    ELSE IF idx = 0 THEN Fail(f, "NotFound")
    ELSE Outcome(save_books(UpdateBook(ld.books, idx, args)), 0, "", <<>>)

cmd_delete(f, args) ==
    LET ld == load_books(f)
        idx == get_book_index(ld.books, args.id) IN
    IF ~ld.ok THEN Fail(f, "MalformedStore")
    ELSE IF idx = 0 THEN Fail(f, "NotFound")
    ELSE Outcome(save_books(Pop(ld.books, idx)), 0, "", <<>>)

(* main: parse the command line and call the subcommand's handler. *)
main(f, cl) ==
    LET args == build_parser(cl) IN
    CASE cl.command = "init" -> cmd_init(f, args)
      [] cl.command = "list" -> cmd_list(f, args)
      [] cl.command = "get" -> cmd_get(f, args)
      [] cl.command = "add" -> cmd_add(f, args)
      [] cl.command = "update" -> cmd_update(f, args)
      [] cl.command = "delete" -> cmd_delete(f, args)

(* ----------------------- sequential invocations ------------------------ *)
(* last records the invocation that has just finished and pre the store it *)
(* started from; undo records a successful add that had only --id,         *)
(* --title, --author and --year on its command line, with the store before *)
(* it, until the next invocation has run.                                  *)
NoLast == [cl |-> NoCmd, exit |-> 0, err |-> "", out |-> <<>>, chain |-> FALSE, base |-> Absent]
NoUndo == [id |-> 0, base |-> Absent]

PlainAdd(cl, r) ==
    /\ cl.command = "add" /\ r.exit = 0
    /\ cl.genres = None /\ cl.stock = "none"

(* One invocation from the shell prompt: main runs to process exit. *)
Invoke(cl) ==
    LET r == main(store, cl)
        chained == cl.command = "delete" /\ undo.id = cl.id IN
    /\ store' = r.file
    /\ pre' = store
    /\ last' = [cl |-> cl, exit |-> r.exit, err |-> r.err, out |-> r.out,
                chain |-> chained, base |-> IF chained THEN undo.base ELSE Absent]
    /\ undo' = IF PlainAdd(cl, r) THEN [id |-> cl.id, base |-> store] ELSE NoUndo
    /\ UNCHANGED concVars

AtPrompt == last.cl = NoCmd

RunInit == AtPrompt /\ \E cl \in InitCmdLines : Invoke(cl)
RunList == AtPrompt /\ \E cl \in ListCmdLines : Invoke(cl)
RunGet == AtPrompt /\ \E cl \in GetCmdLines : Invoke(cl)
RunAdd ==
    /\ AtPrompt
    /\ \E cl \in AddCmdLines :
          /\ Len(load_books(main(store, cl).file).books) <= MaxBooks
          /\ Invoke(cl)
RunUpdate == AtPrompt /\ \E cl \in UpdateCmdLines : Invoke(cl)
RunDelete == AtPrompt /\ \E cl \in DeleteCmdLines : Invoke(cl)

(* Back at the prompt: the finished invocation's status and output are no  *)
(* longer observed; the store stays as the process left it.                *)
Prompt ==
    /\ ~AtPrompt
    /\ last' = NoLast
    /\ pre' = store
    /\ UNCHANGED <<store, undo>>
    /\ UNCHANGED concVars

(* ----------------------------- initial stores -------------------------- *)
Dune(k) == [id |-> k, title |-> "Dune", author |-> "Herbert", year |-> 1965,
            genres |-> <<"scifi">>, in_stock |-> FALSE]

(* Stores the tool itself leaves behind (one of them from an earlier add   *)
(* with another author), and files that are not JSON.                      *)
ToolStores ==
    {Absent, save_books(<<>>), save_books(<<Dune(2), [Dune(1) EXCEPT !.author = "Asimov"]>>)}
MalformedStores ==
    {FileOf(<<JunkTok>>), FileOf(<<>>), FileOf(<<OpenTok, ObjTok(Dune(1))>>)}

(* Hand-written documents: no trailing newline, repeated ids, missing keys. *)
ForeignStores ==
    {FileOf(json_dump(<<Dune(1)>>)),
     FileOf(json_dump(<<Dune(1), [Dune(1) EXCEPT !.title = "New"]>>)),
     FileOf(json_dump(<<[id |-> 1, title |-> "Dune", author |-> "Herbert", year |-> 1951]>>))}

Procs == {1, 2}
NoRes == [exit |-> 0, err |-> ""]

ConcIdle ==
    /\ pc = [p \in Procs |-> "idle"]
    /\ cmd = [p \in Procs |-> NoCmd]
    /\ seen = [p \in Procs |-> Absent]
    /\ pending = [p \in Procs |-> <<>>]
    /\ offset = [p \in Procs |-> 0]
    /\ res = [p \in Procs |-> NoRes]

InitFrom(S) ==
    /\ store \in S
    /\ pre = store
    /\ last = NoLast
    /\ undo = NoUndo
    /\ ConcIdle

Init == InitFrom(ToolStores \cup MalformedStores)
InitAny == InitFrom(ToolStores \cup ForeignStores)

Next == RunInit \/ RunList \/ RunGet \/ RunAdd \/ RunUpdate \/ RunDelete \/ Prompt

Spec == Init /\ [][Next]_vars
SpecAny == InitAny /\ [][Next]_vars

(* ---------------------- interleaved invocations ------------------------ *)
(* Each process is one invocation.  Its handler is cut where the file is   *)
(* touched: the load (or init's existence test), the open for writing,     *)
(* buffer flushes, and the close.                                          *)
ConcCmdLines ==
    InitCmdLines
    \cup {CmdLine("list", 0, None, None, None, None, "none", FALSE)}
    \cup {CmdLine("add", 1, Some("Dune"), Some("Herbert"), Some(1965), None, "none", FALSE)}
    \cup {CmdLine("delete", 1, None, None, None, None, "none", FALSE)}

(* The handler reaches save_books: a mutating command that did not exit,   *)
(* or init on an absent file.                                              *)
ReachesSave(cl, r) ==
    \/ cl.command \in {"add", "update", "delete"} /\ r.exit = 0
    \/ cl.command = "init" /\ ~store.exists

(* write() at a file position: overwrites, extends, and zero-fills a gap. *)
Max(a, b) == IF a >= b THEN a ELSE b
WriteAt(data, off, chunk) ==
    [i \in 1..Max(Len(data), off + Len(chunk)) |->
        IF i > off /\ i <= off + Len(chunk) THEN chunk[i - off]
        ELSE IF i <= Len(data) THEN data[i]
        ELSE NulTok]

(* The process starts, reads the store (load_books, or os.path.exists in   *)
(* cmd_init) and runs the handler up to its exit or its call of save_books. *)
Load(p) ==
    \E cl \in ConcCmdLines :
        LET r == main(store, cl) IN
        /\ pc[p] = "idle"
        /\ Len(load_books(r.file).books) <= MaxBooks
        /\ cmd' = [cmd EXCEPT ![p] = cl]
        /\ seen' = [seen EXCEPT ![p] = IF cl.command = "init" THEN seen[p] ELSE store]
        /\ IF ReachesSave(cl, r)
           THEN /\ pc' = [pc EXCEPT ![p] = "save"]
                /\ pending' = [pending EXCEPT ![p] = r.file.data]
                /\ res' = [res EXCEPT ![p] = NoRes]
           ELSE /\ pc' = [pc EXCEPT ![p] = "idle"]
                /\ pending' = [pending EXCEPT ![p] = <<>>]
                /\ res' = [res EXCEPT ![p] = [exit |-> r.exit, err |-> r.err]]
        /\ UNCHANGED <<offset, seqVars>>

(* save_books line 21: open(BOOKS_FILE, "w") creates or truncates the file. *)
Open(p) ==
    /\ pc[p] = "save"
    /\ pc' = [pc EXCEPT ![p] = "writing"]
    /\ store' = FileOf(<<>>)
    /\ offset' = [offset EXCEPT ![p] = 0]
    /\ UNCHANGED <<pre, last, undo, cmd, seen, pending, res>>

(* save_books lines 22-23: the buffer fills before the end of the text and *)
(* a part of it is written out.                                            *)
Flush(p) ==
    \E n \in 1..(Len(pending[p]) - 1) :
        /\ pc[p] = "writing"
        /\ store' = FileOf(WriteAt(store.data, offset[p], SubSeq(pending[p], 1, n)))
        /\ offset' = [offset EXCEPT ![p] = offset[p] + n]
        /\ pending' = [pending EXCEPT ![p] = SubSeq(pending[p], n + 1, Len(pending[p]))]
        /\ UNCHANGED <<pre, last, undo, pc, cmd, seen, res>>

(* Leaving the with block: the rest of the buffer is written, the file is  *)
(* closed and the process exits with status 0.                             *)
Close(p) ==
    /\ pc[p] = "writing"
    /\ store' = FileOf(WriteAt(store.data, offset[p], pending[p]))
    /\ offset' = [offset EXCEPT ![p] = 0]
    /\ pending' = [pending EXCEPT ![p] = <<>>]
    /\ pc' = [pc EXCEPT ![p] = "idle"]
    /\ res' = [res EXCEPT ![p] = [exit |-> 0, err |-> ""]]
    /\ UNCHANGED <<pre, last, undo, cmd, seen>>

InitConc == InitFrom(ToolStores)

NextConc == \E p \in Procs : Load(p) \/ Open(p) \/ Flush(p) \/ Close(p)

SpecConc == InitConc /\ [][NextConc]_vars

(* C7: a load interleaved with another invocation's open, write and close  *)
(* reads either the old complete document or the new complete document,    *)
(* never an empty or partly written one.                                   *)
C7_ReaderSeesOldOrNew ==
    \A p \in Procs : seen[p].exists => json_valid(seen[p].data)

(* ======================= properties of the store ======================= *)
Catalog(f) == load_books(f).books
Readable(f) == load_books(f).ok
DistinctIds(bs) == \A i, j \in 1..Len(bs) : i # j => bs[i]["id"] # bs[j]["id"]
Ran(c) == last.cl.command = c
Succeeded(c) == Ran(c) /\ last.exit = 0

(* The first position in bs whose record has id k (0 when there is none), *)
(* stated by its defining property.                                       *)
FirstWith(bs, k) ==
    IF \E i \in 1..Len(bs) : bs[i]["id"] = k
    THEN CHOOSE i \in 1..Len(bs) :
            bs[i]["id"] = k /\ ~(\E j \in 1..Len(bs) : j < i /\ bs[j]["id"] = k)
    ELSE 0

(* C1: starting from an absent store or one with pairwise distinct ids,   *)
(* after any sequence of invocations, successful or failing, the ids in   *)
(* the persisted catalog are pairwise distinct.                           *)
C1_IdsDistinct == Readable(store) => DistinctIds(Catalog(store))

C1_Witness ==
    /\ Ran("add") /\ last.err = "DuplicateId"
    /\ Len(Catalog(store)) = 2

(* C2: add with an id already present signals DuplicateId, exits non-zero *)
(* and leaves the persisted store identical to the store before it.       *)
C2_DuplicateAddRejected ==
    (Ran("add") /\ Readable(pre) /\ (\E i \in 1..Len(Catalog(pre)) : Catalog(pre)[i]["id"] = last.cl.id))
        => (last.err = "DuplicateId" /\ last.exit # 0 /\ store = pre)

C2_Witness ==
    /\ Ran("add") /\ last.exit # 0
    /\ Len(Catalog(pre)) = 2
    /\ Catalog(pre)[2]["id"] = last.cl.id

(* C3: get, update and delete with an id that is not in the catalog       *)
(* (absent file, empty or non-empty catalog) signal NotFound, exit        *)
(* non-zero and leave the store unchanged; an absent file stays absent.   *)
C3_NotFoundNoWrite ==
    ((Ran("get") \/ Ran("update") \/ Ran("delete")) /\ Readable(pre)
        /\ ~(\E i \in 1..Len(Catalog(pre)) : Catalog(pre)[i]["id"] = last.cl.id))
        => (last.err = "NotFound" /\ last.exit # 0 /\ store = pre)

C3_Witness ==
    /\ Ran("update") /\ last.err = "NotFound"
    /\ Len(Catalog(pre)) >= 1
    /\ last.cl.title # None

(* C4: a successful update of id k overwrites exactly the supplied fields  *)
(* of the first record with id k and leaves unchanged the fields not       *)
(* supplied, the record's id, every other record, and the length and order *)
(* of the catalog; genres supplied empty clears genres, genres omitted     *)
(* leaves it; in_stock is true / false / unspecified (no change).          *)
Supplied(cl) ==
    [title |-> cl.title, author |-> cl.author, year |-> cl.year, genres |-> cl.genres,
     in_stock |-> IF cl.stock = "none" THEN None ELSE Some(cl.stock = "in")]

C4_UpdateFrame ==
    Succeeded("update") =>
        LET old == Catalog(pre)
            new == Catalog(store)
            idx == FirstWith(old, last.cl.id)
            sup == Supplied(last.cl) IN
        /\ idx > 0
        /\ Readable(store)
        /\ Len(new) = Len(old)
        /\ \A i \in 1..Len(old) : i # idx => new[i] = old[i]
        /\ new[idx]["id"] = last.cl.id
        /\ \A f \in Fields \ {"id"} :
              IF sup[f] # None
              THEN f \in DOMAIN new[idx] /\ new[idx][f] = sup[f][1]
              ELSE /\ (f \in DOMAIN new[idx]) <=> (f \in DOMAIN old[idx])
                   /\ f \in DOMAIN old[idx] => new[idx][f] = old[idx][f]

C4_Witness ==
    /\ Succeeded("update")
    /\ last.cl.genres = Some(<<>>) /\ last.cl.stock = "out" /\ last.cl.title = None
    /\ Len(Catalog(pre)) = 2
    /\ Catalog(pre)[1]["id"] = Catalog(pre)[2]["id"]
    /\ Catalog(pre)[1]["genres"] # <<>>

(* C5: when the store file exists and is not JSON, list, get, add, update  *)
(* and delete fail with MalformedStore, exit non-zero and do not modify    *)
(* the file.                                                               *)
C5_MalformedIsFatal ==
    ((Ran("list") \/ Ran("get") \/ Ran("add") \/ Ran("update") \/ Ran("delete"))
        /\ pre.exists /\ ~json_valid(pre.data))
        => (last.err = "MalformedStore" /\ last.exit # 0 /\ last.out = <<>> /\ store = pre)

C5_Witness ==
    /\ Ran("add") /\ last.err = "MalformedStore"
    /\ store = FileOf(<<JunkTok>>)

(* C6: init leaves an existing store file unchanged whatever its content,  *)
(* creates the empty catalog when the file is absent, and never errors.    *)
C6_InitIdempotent ==
    Ran("init") =>
        /\ last.exit = 0 /\ last.err = ""
        /\ pre.exists => store = pre
        /\ ~pre.exists => (store.exists /\ Readable(store) /\ Catalog(store) = <<>>)

C6_Witness ==
    /\ Ran("init")
    /\ pre.exists /\ Readable(pre) /\ Len(Catalog(pre)) >= 1

C9_AddThenDelete ==
    /\ (Ran("add") /\ last.cl.genres = None /\ last.cl.stock = "none" /\ Readable(pre)
          /\ FirstWith(Catalog(pre), last.cl.id) = 0)
        => /\ last.exit = 0
           /\ Readable(store)
           /\ Catalog(store) = Catalog(pre) \o
                 <<[id |-> last.cl.id, title |-> last.cl.title[1], author |-> last.cl.author[1],
                    year |-> last.cl.year[1], genres |-> <<>>, in_stock |-> TRUE]>>
    /\ (Ran("delete") /\ last.chain)
        => /\ last.exit = 0
           /\ Readable(store)
           /\ Catalog(store) = Catalog(last.base)

C9_Witness ==
    /\ Ran("delete") /\ last.chain /\ last.exit = 0
    /\ Len(Catalog(store)) >= 1

(* C10: a successful delete of id k removes exactly the first record with *)
(* id k and keeps every other record and their order; the length drops by *)
(* one.                                                                   *)
C10_DeleteFirstMatch ==
    Succeeded("delete") =>
        LET old == Catalog(pre)
            new == Catalog(store)
            idx == FirstWith(old, last.cl.id) IN
        /\ idx > 0
        /\ Readable(store)
        /\ Len(new) = Len(old) - 1
        /\ \A i \in 1..Len(new) : new[i] = IF i < idx THEN old[i] ELSE old[i + 1]

C10_Witness ==
    /\ Succeeded("delete")
    /\ Len(Catalog(pre)) = 2
    /\ Catalog(pre)[1]["id"] = Catalog(pre)[2]["id"]
    /\ Catalog(pre)[1] # Catalog(pre)[2]
    /\ Catalog(store) = <<Catalog(pre)[2]>>
====
